---- MODULE Spec2Model ----
(***************************************************************************)
(* NuttX thread awareness of OpenOCD (src/rtos/nuttx.c) as a state machine. *)
(*                                                                         *)
(* State: the fields of struct rtos the backend uses (symbols,             *)
(* thread_details, thread_count, current_thread, rtos_specific_params),    *)
(* the halted target (its type name, its FPU, its memory) and the outcome  *)
(* of the last backend call.  Every backend entry point is one action; the *)
(* remote reads and host allocations a call issues are listed, in issue    *)
(* order, in the call's trace, and the one that fails (if any) is an input *)
(* of the action.                                                          *)
(***************************************************************************)
EXTENDS Integers, Sequences, FiniteSets, TLC

VARIABLES
    symbols,                \* rtos->symbols: NULL or the four resolved addresses
    thread_details,         \* rtos->thread_details: the array of struct thread_detail
    thread_count,           \* rtos->thread_count
    current_thread,         \* rtos->current_thread
    rtos_specific_params,   \* rtos->rtos_specific_params: NULL or an entry of nuttx_params_list
    target_type,            \* target_type_name(target)
    fpu,                    \* armv7m_common: is_armv7m, fp_feature, and the CPACR register
    mem,                    \* memory of the halted target
    last                    \* the last backend call: its arguments, return value and trace

vars == <<symbols, thread_details, thread_count, current_thread,
          rtos_specific_params, target_type, fpu, mem, last>>

-----------------------------------------------------------------------------
(* Bounds of the model *)

\* largest hash-table size (g_npidhash) of the images whose table is walked whole
MaxBuckets == 2

\* most 32-bit words readable past the end of a heap buffer before the
\* address space of the debugger ends
MaxOverread == 1

-----------------------------------------------------------------------------
(* Constants of nuttx.c *)

NAME_SIZE == 32
EXTRAINFO_SIZE == 256
PTR_WIDTH == 4

NX_SYM_READYTORUN == 0
NX_SYM_PIDHASH == 1
NX_SYM_NPIDHASH == 2
NX_SYM_TCB_INFO == 3

\* (the four symbols and the entry that ends the list, { NULL, false })
nuttx_symbol_list ==
    << [name |-> <<"g_readytorun">>, optional |-> FALSE],
       [name |-> <<"g_pidhash">>,    optional |-> FALSE],
       [name |-> <<"g_npidhash">>,   optional |-> FALSE],
       [name |-> <<"g_tcbinfo">>,    optional |-> FALSE],
       [name |-> <<>>,               optional |-> FALSE] >>

task_state_str ==
    << "INVALID", "PENDING", "READYTORUN", "RUNNING", "INACTIVE", "WAIT_SEM",
       "WAIT_SIG", "WAIT_MQNOTEMPTY", "WAIT_MQNOTFULL", "WAIT_PAGEFILL", "STOPPED" >>

nuttx_params_list ==
    << [target_name |-> "cortex_m",   select_stackinfo |-> "cortexm_select_stackinfo"],
       [target_name |-> "hla_target", select_stackinfo |-> "cortexm_select_stackinfo"],
       [target_name |-> "esp32c3",    select_stackinfo |-> "riscv_select_stackinfo"] >>

\* ARRAY_SIZE(x)
ARRAY_SIZE(a) == Len(a)

\* byte offset of each 2-byte field of the packed struct tcbinfo
tcbinfo_offsetof ==
    [pid_off |-> 0, state_off |-> 2, pri_off |-> 4, name_off |-> 6,
     regs_off |-> 8, basic_num |-> 10, total_num |-> 12]

\* C pointers to strings: NULL, a string, or memory no one has written yet
NULL == <<>>
Str(s) == <<s>>
UNINIT == <<"", "uninitialized">>

-----------------------------------------------------------------------------
(* The target image: where the firmware keeps what nuttx.c reads *)

\* link addresses of the four symbols of nuttx_symbol_list, by NX_SYM_* index
LinkAddr == [i \in 0..3 |-> 4096 + 16 * i]

\* address of the g_pidhash array, and the control blocks it can point to
Board == [pidhash |-> 12288, tcbs |-> {8192, 8448}]
TcbAddrs == Board.tcbs

\* the saved-register block of each control block
RegsAddr == [t \in TcbAddrs |-> t + 128]

\* control-block layouts a firmware build can describe in g_tcbinfo
Layouts ==
    { [pid_off |-> 12, state_off |-> 26, pri_off |-> 24, name_off |-> n,
       regs_off |-> r, basic_num |-> 17, total_num |-> 17] :
          n \in {0, 38}, r \in {44, 48} }

\* what a control block can hold: pid, scheduling state, name
TcbImages ==
    { [pid |-> 5,   state |-> 3,  name |-> "idle"],
      [pid |-> 300, state |-> 11, name |-> "init"],
      [pid |-> 7,   state |-> 10, name |-> "sh"] }

RECURSIVE SeqsUpTo(_, _)
SeqsUpTo(S, n) ==
    IF n = 0 THEN {<<>>}
    ELSE LET shorter == SeqsUpTo(S, n - 1)
         IN shorter \cup {Append(s, x) : s \in {q \in shorter : Len(q) = n - 1}, x \in S}

\* the bucket arrays: g_npidhash entries, each 0 or a control-block address
BucketArrays == SeqsUpTo({0} \cup TcbAddrs, MaxBuckets)

\* 2^32 / PTR_WIDTH: the number of PTR_WIDTH-byte entries whose byte length,
\* computed in uint32_t, wraps to 0
TwoTo30 == 1073741824

\* g_npidhash and the entries g_pidhash points to: a table of up to MaxBuckets
\* buckets, or a size of 2^30 and more (a corrupt or hostile image) over
\* whatever memory lies at g_pidhash
Tables ==
    {[npidhash |-> Len(b), pidhash |-> b] : b \in BucketArrays}
        \cup {[npidhash |-> TwoTo30, pidhash |-> <<>>],
              [npidhash |-> TwoTo30 + 1, pidhash |-> <<0>>]}

-----------------------------------------------------------------------------
(* Target Accessor: what a successful read returns, by address *)

\* (addresses of the image are far below 2^32, so address sums never wrap)
TcbAt(addr, off) == {t \in TcbAddrs : t + off = addr}

target_read_u32(addr) ==
    IF addr = LinkAddr[NX_SYM_NPIDHASH] THEN mem.npidhash
    ELSE IF addr = LinkAddr[NX_SYM_PIDHASH] THEN Board.pidhash
    ELSE IF addr = LinkAddr[NX_SYM_READYTORUN] THEN mem.readytorun
    ELSE IF TcbAt(addr, mem.tcbinfo.regs_off) # {}
         THEN RegsAddr[CHOOSE t \in TcbAt(addr, mem.tcbinfo.regs_off) : TRUE]
    ELSE 0

target_read_u16(addr) ==
    IF \E f \in DOMAIN tcbinfo_offsetof : addr = LinkAddr[NX_SYM_TCB_INFO] + tcbinfo_offsetof[f]
    THEN mem.tcbinfo[CHOOSE f \in DOMAIN tcbinfo_offsetof :
                        addr = LinkAddr[NX_SYM_TCB_INFO] + tcbinfo_offsetof[f]]
    ELSE IF TcbAt(addr, mem.tcbinfo.pid_off) # {}
         THEN mem.tcb[CHOOSE t \in TcbAt(addr, mem.tcbinfo.pid_off) : TRUE].pid % 65536
    ELSE 0

target_read_u8(addr) ==
    IF TcbAt(addr, mem.tcbinfo.state_off) # {}
    THEN mem.tcb[CHOOSE t \in TcbAt(addr, mem.tcbinfo.state_off) : TRUE].state % 256
    ELSE 0

\* the bucket array, as the sequence of its first n 32-bit entries
target_read_pidhash(addr, n) ==
    [i \in 1..n |-> IF addr = Board.pidhash /\ i <= Len(mem.pidhash) THEN mem.pidhash[i] ELSE 0]

\* the seven fields of struct tcbinfo
target_read_tcbinfo(addr) ==
    IF addr = LinkAddr[NX_SYM_TCB_INFO] THEN mem.tcbinfo
    ELSE [f \in DOMAIN tcbinfo_offsetof |-> 0]

\* the NAME_SIZE bytes of a task name, as the C string they hold
\* (the names of the image are shorter than NAME_SIZE)
target_read_name(addr) ==
    IF mem.tcbinfo.name_off # 0 /\ TcbAt(addr, mem.tcbinfo.name_off) # {}
    THEN mem.tcb[CHOOSE t \in TcbAt(addr, mem.tcbinfo.name_off) : TRUE].name
    ELSE ""

-----------------------------------------------------------------------------
(* The trace of a call: the remote reads and host allocations it issued *)

\* the next operation of a call; operation number `fail` of the call fails
Issue(trace, kind, addr, fail) ==
    Append(trace, [op |-> kind, addr |-> addr, ok |-> (Len(trace) + 1 # fail)])

Ok(trace) == trace[Len(trace)].ok

ReadOps == {"read_u8", "read_u16", "read_u32", "read_buffer"}
AllocOps == {"malloc", "realloc", "calloc", "strdup"}

-----------------------------------------------------------------------------
(* nuttx_update_threads *)

\* "%d" of a non-negative int
RECURSIVE FormatDec(_)
FormatDec(n) ==
    LET digit == <<"0", "1", "2", "3", "4", "5", "6", "7", "8", "9">>
    IN IF n < 10 THEN digit[n + 1]
       ELSE FormatDec(n \div 10) \o digit[(n % 10) + 1]

\* (a slip: the state code printed where the pid belongs)
FormatExtraInfo_StateForPid(pid, state) ==
    "pid:" \o FormatDec(state) \o ", " \o task_state_str[state + 1]

\* snprintf(extra_info_str, EXTRAINFO_SIZE, "pid:%d, %s", pid, task_state_str[state])
\* (no result is as long as EXTRAINFO_SIZE, so nothing is cut)
FormatExtraInfo(pid, state) ==
    "pid:" \o FormatDec(pid) \o ", " \o task_state_str[state + 1]

\* (a slip: the last entry of the table taken for out of range)
StateInTable_OffByOne(state) == state < ARRAY_SIZE(task_state_str) - 1

\* state < ARRAY_SIZE(task_state_str)
StateInTable(state) == state < ARRAY_SIZE(task_state_str)

\* rtos_free_threadlist(rtos): the previous snapshot is released, none is listed
rtos_free_threadlist(rtos) ==
    [rtos EXCEPT !.thread_details = <<>>, !.thread_count = 0]

\* the fields of struct rtos a refresh writes
Rtos ==
    [thread_details |-> thread_details, thread_count |-> thread_count,
     current_thread |-> current_thread]

\* (a slip: the Current-Thread Marker cleared along with the thread details)
FreePrevious_ClearsMarker(rtos) ==
    [rtos_free_threadlist(rtos) EXCEPT !.current_thread = 0]

\* (a slip: the thread details freed, the count of them kept)
FreePrevious_KeepsCount(rtos) == [rtos EXCEPT !.thread_details = <<>>]

\* (a slip: the previous thread details are not freed)
FreePrevious_Skipped(rtos) == rtos

\* "Free previous thread details"
FreePrevious(rtos) == rtos_free_threadlist(rtos)

\* what a call of nuttx_update_threads leaves: its return value, struct rtos, its trace
Returned(ret, rtos, trace) == [ret |-> ret, rtos |-> rtos, trace |-> trace]

\* (a slip: the result of the name read is not tested)
AppendThread_IgnoresNameRead(rtos, tcbaddr, pid, state, name_off, t0, fail, err) ==
    LET count == Len(rtos.thread_details) + 1
        t1 == Issue(t0, "realloc", 0, fail)
        thread == [threadid |-> tcbaddr, exists |-> TRUE,
                   extra_info_str |-> NULL, thread_name_str |-> UNINIT]
        r1 == [rtos EXCEPT !.thread_details = Append(@, thread)]
        t2 == IF StateInTable(state) THEN Issue(t1, "malloc", 0, fail) ELSE t1
        r2 == IF StateInTable(state)
              THEN [r1 EXCEPT !.thread_details[count].extra_info_str =
                                   Str(FormatExtraInfo(pid, state))]
              ELSE r1
    IN IF ~Ok(t1)
       THEN Returned("ERROR_FAIL", [rtos EXCEPT !.thread_details = <<>>], t1)
       ELSE IF StateInTable(state) /\ ~Ok(t2)
       THEN Returned("ERROR_FAIL", r1, t2)
       ELSE IF name_off # 0
       THEN LET t3 == Issue(t2, "calloc", 0, fail)
                t4 == Issue(t3, "read_buffer", tcbaddr + name_off, fail)
            IN IF ~Ok(t3)
               THEN Returned("ERROR_FAIL",
                             [r2 EXCEPT !.thread_details[count].thread_name_str = NULL], t3)
               ELSE Returned("ERROR_OK",
                             [r2 EXCEPT !.thread_details[count].thread_name_str =
                                            IF Ok(t4)
                                            THEN Str(target_read_name(tcbaddr + name_off))
                                            ELSE Str("")], t4)
       ELSE LET t3 == Issue(t2, "strdup", 0, fail)
            IN Returned("ERROR_OK",
                        [r2 EXCEPT !.thread_details[count].thread_name_str =
                                       IF Ok(t3) THEN Str("None") ELSE NULL], t3)

\* the body of the bucket loop for a non-zero bucket, after the pid and state
\* reads: the record is appended, then its info string and its name are built
AppendThread(rtos, tcbaddr, pid, state, name_off, t0, fail, err) ==
    LET count == Len(rtos.thread_details) + 1
        t1 == Issue(t0, "realloc", 0, fail)
        thread == [threadid |-> tcbaddr, exists |-> TRUE,
                   extra_info_str |-> NULL, thread_name_str |-> UNINIT]
        r1 == [rtos EXCEPT !.thread_details = Append(@, thread)]
        t2 == IF StateInTable(state) THEN Issue(t1, "malloc", 0, fail) ELSE t1
        r2 == IF StateInTable(state)
              THEN [r1 EXCEPT !.thread_details[count].extra_info_str =
                                   Str(FormatExtraInfo(pid, state))]
              ELSE r1
    IN IF ~Ok(t1)
       THEN Returned("ERROR_FAIL", [rtos EXCEPT !.thread_details = <<>>], t1)
       ELSE IF StateInTable(state) /\ ~Ok(t2)
       THEN Returned("ERROR_FAIL", r1, t2)
       ELSE IF name_off # 0
       THEN LET t3 == Issue(t2, "calloc", 0, fail)
                t4 == Issue(t3, "read_buffer", tcbaddr + name_off, fail)
            IN IF ~Ok(t3)
               THEN Returned("ERROR_FAIL",
                             [r2 EXCEPT !.thread_details[count].thread_name_str = NULL], t3)
               ELSE IF ~Ok(t4)
               THEN Returned(err,
                             [r2 EXCEPT !.thread_details[count].thread_name_str = Str("")], t4)
               ELSE Returned("ERROR_OK",
                             [r2 EXCEPT !.thread_details[count].thread_name_str =
                                            Str(target_read_name(tcbaddr + name_off))], t4)
       ELSE LET t3 == Issue(t2, "strdup", 0, fail)
            IN Returned("ERROR_OK",
                        [r2 EXCEPT !.thread_details[count].thread_name_str =
                                       IF Ok(t3) THEN Str("None") ELSE NULL], t3)

\* for (i = 0; i < npidhash; i++): the loop from bucket i on (i counts from 1)
\* (pidhash holds the entries the loop decodes from bucket i on; ERROR_OK
\* stands for the loop running out of them)
RECURSIVE WalkBuckets(_, _, _, _, _, _, _)
WalkBuckets(i, rtos, pidhash, tcbinfo, trace, fail, err) ==
    IF i > Len(pidhash)
    THEN Returned("ERROR_OK", rtos, trace)
    ELSE LET tcbaddr == pidhash[i]
         IN IF tcbaddr = 0
            THEN WalkBuckets(i + 1, rtos, pidhash, tcbinfo, trace, fail, err)
            ELSE LET t1 == Issue(trace, "read_u16", tcbaddr + tcbinfo.pid_off, fail)
                     pid == target_read_u16(tcbaddr + tcbinfo.pid_off)
                     t2 == Issue(t1, "read_u8", tcbaddr + tcbinfo.state_off, fail)
                     state == target_read_u8(tcbaddr + tcbinfo.state_off)
                 IN IF ~Ok(t1) THEN Returned(err, rtos, t1)
                    ELSE IF ~Ok(t2) THEN Returned(err, rtos, t2)
                    ELSE LET a == AppendThread(rtos, tcbaddr, pid, state,
                                               tcbinfo.name_off, t2, fail, err)
                         IN IF a.ret # "ERROR_OK" THEN a
                            ELSE WalkBuckets(i + 1, a.rtos, pidhash, tcbinfo,
                                             a.trace, fail, err)

\* malloc(npidhash * PTR_WIDTH), target_read_buffer(.., PTR_WIDTH * npidhash, ..):
\* the product of a uint32_t and an int is a uint32_t, so the byte length is
\* npidhash * 4 mod 2^32; counted in entries of PTR_WIDTH bytes that is
\* npidhash mod 2^30
BufferWords(npidhash) == npidhash % TwoTo30

\* the loop goes on after the last entry of the buffer, while i < npidhash:
\* pidhash[i * sizeof(uint32_t)] is read past the end of the heap block, which
\* is undefined behaviour.  `garbage` is what the heap holds there, as far as
\* it can be read; the loop decodes it as buckets, and when no failing read or
\* allocation ends the call first, the read faults where the heap ends
Overread(w, words, garbage, tcbinfo, fail, err) ==
    LET t1 == Append(w.trace, [op |-> "overread", addr |-> words, ok |-> TRUE])
        g == WalkBuckets(1, w.rtos, garbage, tcbinfo, t1, fail, err)
    IN IF g.ret # "ERROR_OK" THEN g
       ELSE Returned("SIGSEGV", g.rtos, g.trace)

\* nuttx_update_threads(rtos), when operation number `fail` of the call fails
\* (0: none does), a failing read returns the error code `err`, and the heap
\* past the bucket buffer holds `garbage`
nuttx_update_threads(fail, err, garbage) ==
    IF symbols = NULL
    THEN Returned("ERROR_FAIL", Rtos, <<>>)
    ELSE
    LET r0 == FreePrevious(Rtos)
        t1 == Issue(<<>>, "read_u32", symbols[NX_SYM_NPIDHASH], fail)
        npidhash == target_read_u32(symbols[NX_SYM_NPIDHASH])
        t2 == Issue(t1, "read_u32", symbols[NX_SYM_PIDHASH], fail)
        pidhashaddr == target_read_u32(symbols[NX_SYM_PIDHASH])
        t3 == Issue(t2, "malloc", 0, fail)
        words == BufferWords(npidhash)
        t4 == Issue(t3, "read_buffer", pidhashaddr, fail)
        pidhash == target_read_pidhash(pidhashaddr, words)
        t5 == Issue(t4, "read_buffer", symbols[NX_SYM_TCB_INFO], fail)
        tcbinfo == target_read_tcbinfo(symbols[NX_SYM_TCB_INFO])
        t6 == Issue(t5, "read_u32", symbols[NX_SYM_READYTORUN], fail)
        r6 == [r0 EXCEPT !.current_thread = target_read_u32(symbols[NX_SYM_READYTORUN])]
        w  == WalkBuckets(1, r6, pidhash, tcbinfo, t6, fail, err)
        o  == IF w.ret = "ERROR_OK" /\ npidhash > words
              THEN Overread(w, words, garbage, tcbinfo, fail, err)
              ELSE w
    IN IF ~Ok(t1) THEN Returned("ERROR_FAIL", r0, t1)
       ELSE IF ~Ok(t2) THEN Returned("ERROR_FAIL", r0, t2)
       ELSE IF ~Ok(t3) THEN Returned("ERROR_FAIL", r0, t3)
       ELSE IF ~Ok(t4) THEN Returned(err, r0, t4)
       ELSE IF ~Ok(t5) THEN Returned(err, r0, t5)
       ELSE IF ~Ok(t6) THEN Returned(err, r0, t6)
       ELSE IF o.ret # "ERROR_OK" THEN o
       ELSE Returned("ERROR_OK",
                     [o.rtos EXCEPT !.thread_count = Len(o.rtos.thread_details)],
                     o.trace)

-----------------------------------------------------------------------------
(* Detection, binding creation, stacking selection *)

\* (a slip: the hash-table size taken for the hash-table head)
nuttx_detect_rtos_WrongAnchor ==
    /\ symbols # NULL
    /\ symbols[NX_SYM_READYTORUN] # 0
    /\ symbols[NX_SYM_NPIDHASH] # 0

\* nuttx_detect_rtos(target)
nuttx_detect_rtos ==
    /\ symbols # NULL
    /\ symbols[NX_SYM_READYTORUN] # 0
    /\ symbols[NX_SYM_PIDHASH] # 0

\* the loop of nuttx_create: the first index whose target_name is `name`,
\* ARRAY_SIZE(nuttx_params_list) + 1 when there is none (indices count from 1)
RECURSIVE FindParam(_, _)
FindParam(i, name) ==
    IF i > ARRAY_SIZE(nuttx_params_list) THEN i
    ELSE IF nuttx_params_list[i].target_name = name THEN i
    ELSE FindParam(i + 1, name)

\* (a slip: the reference copied before i is tested, from where the loop stopped)
nuttx_create_CopiesBeforeCheck ==
    LET i == FindParam(1, target_type)
    IN IF i > ARRAY_SIZE(nuttx_params_list)
       THEN [ret |-> "JIM_ERR", params |-> Str(ARRAY_SIZE(nuttx_params_list))]
       ELSE [ret |-> "JIM_OK", params |-> Str(i)]

\* nuttx_create(target): the return value and rtos->rtos_specific_params after it
nuttx_create ==
    LET i == FindParam(1, target_type)
    IN IF i > ARRAY_SIZE(nuttx_params_list)
       THEN [ret |-> "JIM_ERR", params |-> rtos_specific_params]
       ELSE [ret |-> "JIM_OK", params |-> Str(i)]

\* address of the coprocessor access control register, 0xE000ED88, as a
\* 32-bit two's-complement number
FPU_CPACR == -536810104

\* cpacr & 0x00F00000, as the bool the function returns
CpacrEnabled(cpacr) == (cpacr \div 1048576) % 16 # 0

\* (a slip: the result of the read of CPACR is not looked at)
cortexm_hasfpu_IgnoresReadError(readok) ==
    IF ~fpu.is_armv7m \/ fpu.fp_feature # "FPV4_SP"
    THEN [has |-> FALSE, trace |-> <<>>]
    ELSE [has |-> CpacrEnabled(fpu.cpacr),
          trace |-> <<[op |-> "read_u32", addr |-> FPU_CPACR, ok |-> readok]>>]

\* cortexm_hasfpu(target): the result and the reads issued, when the read of
\* CPACR succeeds (readok) or fails
cortexm_hasfpu(readok) ==
    IF ~fpu.is_armv7m \/ fpu.fp_feature # "FPV4_SP"
    THEN [has |-> FALSE, trace |-> <<>>]
    ELSE LET t == <<[op |-> "read_u32", addr |-> FPU_CPACR, ok |-> readok]>>
         IN IF ~readok THEN [has |-> FALSE, trace |-> t]
            ELSE [has |-> CpacrEnabled(fpu.cpacr), trace |-> t]

\* cortexm_select_stackinfo(target)
cortexm_select_stackinfo(readok) ==
    LET h == cortexm_hasfpu(readok)
    IN [stacking |-> IF h.has THEN "nuttx_stacking_cortex_m_fpu"
                     ELSE "nuttx_stacking_cortex_m",
        trace |-> h.trace]

\* riscv_select_stackinfo(target)
riscv_select_stackinfo == [stacking |-> "nuttx_riscv_stacking", trace |-> <<>>]

\* (a slip: the selector of the first table entry called, whatever the binding)
select_stackinfo_FirstEntry(priv, readok) == cortexm_select_stackinfo(readok)

\* priv->select_stackinfo(rtos->target), for priv an entry of nuttx_params_list
select_stackinfo(priv, readok) ==
    IF nuttx_params_list[priv[1]].select_stackinfo = "cortexm_select_stackinfo"
    THEN cortexm_select_stackinfo(readok)
    ELSE riscv_select_stackinfo

\* nuttx_get_symbol_list_to_lookup(symbol_list): the array calloc returns is
\* filled without a test for NULL, so when calloc fails the stores go through
\* a null pointer: undefined behaviour, of which `ub` is the outcome, a fault
\* ("SIGSEGV") or a return with *symbol_list NULL ("ERROR_OK")
nuttx_get_symbol_list_to_lookup(allocok, ub) ==
    LET t == <<[op |-> "calloc", addr |-> 0, ok |-> allocok]>>
    IN IF allocok
       THEN [ret |-> "ERROR_OK", trace |-> t,
             symbol_list |-> [i \in 1..ARRAY_SIZE(nuttx_symbol_list) |->
                                 [symbol_name |-> nuttx_symbol_list[i].name,
                                  address |-> 0,
                                  optional |-> nuttx_symbol_list[i].optional]]]
       ELSE [ret |-> ub, trace |-> t, symbol_list |-> NULL]

-----------------------------------------------------------------------------
(* Register reconstruction *)

\* (a slip: a fetch that fails throws the thread snapshot away)
Fetched_FailureFreesSnapshot(ret, reg_list, trace) ==
    [ret |-> ret, reg_list |-> reg_list, trace |-> trace,
     rtos |-> IF ret = "ERROR_OK" THEN Rtos ELSE rtos_free_threadlist(Rtos)]

\* what a register fetch leaves: its return value, *reg_list, its trace, and
\* struct rtos, of which no path of the fetch writes a field
Fetched(ret, reg_list, trace) ==
    [ret |-> ret, reg_list |-> reg_list, trace |-> trace, rtos |-> Rtos]

\* nuttx_getreg_current_thread(rtos, reg_list, num_regs)
nuttx_getreg_current_thread(fail, err) ==
    LET t1 == Issue(<<>>, "get_gdb_reg_list", 0, fail)
        t2 == Issue(t1, "calloc", 0, fail)
    IN IF ~Ok(t1) THEN Fetched(err, NULL, t1)
       ELSE IF ~Ok(t2) THEN Fetched("ERROR_FAIL", NULL, t2)
       ELSE Fetched("ERROR_OK", <<[source |-> "reg_cache"]>>, t2)

\* rtos_generic_stack_read(target, stacking, stack_ptr, reg_list, num_regs):
\* the Register Set unpacked at stack_ptr with the descriptor, or a failure
rtos_generic_stack_read(stacking, stack_ptr, t0, fail, err) ==
    LET t1 == Issue(t0, "stack_read", stack_ptr, fail)
    IN IF ~Ok(t1) THEN Fetched(err, NULL, t1)
       ELSE Fetched("ERROR_OK",
                    <<[source |-> "stack", stacking |-> stacking, stack_ptr |-> stack_ptr]>>,
                    t1)

\* (a slip: the result of the read of the saved-register pointer is not tested)
nuttx_getregs_fromstack_IgnoresPointerRead(thread_id, fail, err) ==
    LET sel == select_stackinfo(rtos_specific_params, fail # 1)
        regs_off_addr == symbols[NX_SYM_TCB_INFO] + tcbinfo_offsetof.regs_off
        t1 == Issue(sel.trace, "read_u16", regs_off_addr, fail)
        xcpreg_off == target_read_u16(regs_off_addr)
        t2 == Issue(t1, "read_u32", thread_id + xcpreg_off, fail)
        regsaddr == target_read_u32(thread_id + xcpreg_off)
    IN IF ~Ok(t1) THEN Fetched("ERROR_FAIL", NULL, t1)
       ELSE rtos_generic_stack_read(sel.stacking, regsaddr, t2, fail, err)

\* (a slip: the offset of basic_num taken for the offset of regs_off)
nuttx_getregs_fromstack_WrongField(thread_id, fail, err) ==
    LET sel == select_stackinfo(rtos_specific_params, fail # 1)
        regs_off_addr == symbols[NX_SYM_TCB_INFO] + tcbinfo_offsetof.basic_num
        t1 == Issue(sel.trace, "read_u16", regs_off_addr, fail)
        xcpreg_off == target_read_u16(regs_off_addr)
        t2 == Issue(t1, "read_u32", thread_id + xcpreg_off, fail)
        regsaddr == target_read_u32(thread_id + xcpreg_off)
    IN IF ~Ok(t1) THEN Fetched("ERROR_FAIL", NULL, t1)
       ELSE IF ~Ok(t2) THEN Fetched("ERROR_FAIL", NULL, t2)
       ELSE rtos_generic_stack_read(sel.stacking, regsaddr, t2, fail, err)

\* nuttx_getregs_fromstack(rtos, thread_id, reg_list, num_regs)
\* (every entry of nuttx_params_list has a select_stackinfo, so the branch
\* for a missing selector is never taken)
nuttx_getregs_fromstack(thread_id, fail, err) ==
    LET sel == select_stackinfo(rtos_specific_params, fail # 1)
        regs_off_addr == symbols[NX_SYM_TCB_INFO] + tcbinfo_offsetof.regs_off
        t1 == Issue(sel.trace, "read_u16", regs_off_addr, fail)
        xcpreg_off == target_read_u16(regs_off_addr)
        t2 == Issue(t1, "read_u32", thread_id + xcpreg_off, fail)
        regsaddr == target_read_u32(thread_id + xcpreg_off)
    IN IF ~Ok(t1) THEN Fetched("ERROR_FAIL", NULL, t1)
       ELSE IF ~Ok(t2) THEN Fetched("ERROR_FAIL", NULL, t2)
       ELSE rtos_generic_stack_read(sel.stacking, regsaddr, t2, fail, err)

\* (a slip: every thread unpacked from its stack)
nuttx_get_thread_reg_list_AlwaysStack(thread_id, fail, err) ==
    nuttx_getregs_fromstack(thread_id, fail, err)

\* nuttx_get_thread_reg_list(rtos, thread_id, reg_list, num_regs), rtos not NULL
nuttx_get_thread_reg_list(thread_id, fail, err) ==
    IF thread_id = current_thread
    THEN nuttx_getreg_current_thread(fail, err)
    ELSE nuttx_getregs_fromstack(thread_id, fail, err)

-----------------------------------------------------------------------------
(* Inputs of the actions *)

\* error codes a failing Target Accessor call returns
ReadErrs == {"ERROR_FAIL", "ERROR_TARGET_NOT_HALTED"}

\* the operations one refresh can issue: six before the bucket walk, six per bucket
MaxOps == 6 + 6 * MaxBuckets

\* the symbol tables a lookup can leave: each address resolved or 0
SymbolTables == [0..3 -> {0} \cup {LinkAddr[i] : i \in 0..3}] \cap
                { [i \in 0..3 |-> IF i \in R THEN LinkAddr[i] ELSE 0] : R \in SUBSET (0..3) }

TargetTypes == {"cortex_m", "hla_target", "esp32c3", "riscv"}

\* thread ids the debugger asks registers for
ThreadIds == {0} \cup TcbAddrs

\* values of CPACR: nothing enabled, CP10 and CP11 enabled, CP10 alone,
\* and a value whose set bits are all outside the enable field
CpacrValues == {0, 15728640, 3145728, 983040}

\* the images of target memory: the control blocks hold different tasks
Images(layouts) ==
    {[npidhash |-> t.npidhash, pidhash |-> t.pidhash, tcbinfo |-> l,
      readytorun |-> r, tcb |-> f] :
        t \in Tables, l \in layouts, r \in TcbAddrs,
        f \in {f \in [TcbAddrs -> TcbImages] : \A a, b \in TcbAddrs : a # b => f[a] # f[b]}}

\* what the heap can hold past the bucket buffer
Garbage == SeqsUpTo({0} \cup TcbAddrs, MaxOverread)

\* outcomes of a store through a null pointer
NullStoreOutcomes == {"SIGSEGV", "ERROR_OK"}

-----------------------------------------------------------------------------
(* Actions *)

\* the debugger process has faulted inside a backend call: nothing runs after
Crashed == last.call = "crashed"

\* the symbol lookup fills rtos->symbols, once
ResolveSymbols(tables) ==
    /\ ~Crashed
    /\ symbols = NULL
    /\ symbols' \in tables
    /\ UNCHANGED <<thread_details, thread_count, current_thread,
                   rtos_specific_params, target_type, fpu, mem, last>>

\* the firmware wrote CPACR while the target ran
WriteCpacr ==
    /\ \E v \in CpacrValues : fpu' = [fpu EXCEPT !.cpacr = v]
    /\ fpu' # fpu
    /\ UNCHANGED <<symbols, thread_details, thread_count, current_thread,
                   rtos_specific_params, target_type, mem, last>>

DetectRtos ==
    /\ ~Crashed
    /\ last' = [call |-> "detect_rtos", detected |-> nuttx_detect_rtos,
                 symbols |-> symbols, trace |-> <<>>]
    /\ UNCHANGED <<symbols, thread_details, thread_count, current_thread,
                   rtos_specific_params, target_type, fpu, mem>>

Create ==
    /\ ~Crashed
    /\ rtos_specific_params' = nuttx_create.params
    /\ last' = [call |-> "create", ret |-> nuttx_create.ret, trace |-> <<>>]
    /\ UNCHANGED <<symbols, thread_details, thread_count, current_thread,
                   target_type, fpu, mem>>

\* (the heap past the buffer matters only to a call that reads it)
UpdateThreads ==
    /\ ~Crashed
    /\ \E fail \in 0..MaxOps, err \in ReadErrs,
          garbage \in IF mem.npidhash > BufferWords(mem.npidhash) THEN Garbage ELSE {<<>>} :
      \E r \in {nuttx_update_threads(fail, err, garbage)} :
           /\ fail = 0 => err = "ERROR_FAIL"
           /\ thread_details' = r.rtos.thread_details
           /\ thread_count' = r.rtos.thread_count
           /\ current_thread' = r.rtos.current_thread
           /\ last' = IF r.ret = "SIGSEGV"
                       THEN [call |-> "crashed", in |-> "update_threads",
                             trace |-> r.trace]
                       ELSE [call |-> "update_threads", ret |-> r.ret,
                             trace |-> r.trace, listed_before |-> thread_count]
           /\ UNCHANGED <<symbols, rtos_specific_params, target_type, fpu, mem>>

\* the debugger asks which symbols to look up; the call takes no struct rtos
\* and no target
GetSymbolListToLookup ==
    /\ ~Crashed
    /\ \E allocok \in BOOLEAN, ub \in NullStoreOutcomes :
          LET g == nuttx_get_symbol_list_to_lookup(allocok, ub)
          IN /\ allocok => ub = "ERROR_OK"
             /\ last' = IF g.ret = "SIGSEGV"
                         THEN [call |-> "crashed", in |-> "get_symbol_list_to_lookup",
                               trace |-> g.trace]
                         ELSE [call |-> "get_symbol_list_to_lookup", ret |-> g.ret,
                               trace |-> g.trace, symbol_list |-> g.symbol_list]
    /\ UNCHANGED <<symbols, thread_details, thread_count, current_thread,
                   rtos_specific_params, target_type, fpu, mem>>

\* the stacking selector of the binding, called as nuttx_getregs_fromstack calls it
SelectStackinfo ==
    /\ ~Crashed
    /\ rtos_specific_params # NULL
    /\ \E readok \in BOOLEAN :
          LET sel == select_stackinfo(rtos_specific_params, readok)
          IN last' = [call |-> "select_stackinfo", ret |-> sel.stacking,
                      trace |-> sel.trace, cpacr |-> fpu.cpacr]
    /\ UNCHANGED <<symbols, thread_details, thread_count, current_thread,
                   rtos_specific_params, target_type, fpu, mem>>

\* the debugger asks the registers of a thread of a bound backend
GetThreadRegList ==
    /\ ~Crashed
    /\ rtos_specific_params # NULL
    /\ symbols # NULL
    /\ \E thread_id \in ThreadIds, fail \in 0..4, err \in ReadErrs :
          LET g == nuttx_get_thread_reg_list(thread_id, fail, err)
          IN /\ thread_details' = g.rtos.thread_details
             /\ thread_count' = g.rtos.thread_count
             /\ current_thread' = g.rtos.current_thread
             /\ last' = [call |-> "get_thread_reg_list", thread_id |-> thread_id,
                         ret |-> g.ret, trace |-> g.trace, reg_list |-> g.reg_list,
                         cpacr |-> fpu.cpacr]
    /\ UNCHANGED <<symbols, rtos_specific_params, target_type, fpu, mem>>

-----------------------------------------------------------------------------
(* Specifications *)

\* struct rtos after os_alloc: no symbols, no threads, no binding
FreshRtos ==
    /\ symbols = NULL
    /\ thread_details = <<>>
    /\ thread_count = 0
    /\ current_thread = 0
    /\ rtos_specific_params = NULL
    /\ last = [call |-> "none", ret |-> "none", trace |-> <<>>]

\* one image of the target memory, for the specifications that do not refresh
OneImage ==
    [npidhash |-> 2, pidhash |-> <<8192, 8448>>,
     tcbinfo |-> CHOOSE l \in Layouts : l.name_off = 38 /\ l.regs_off = 44,
     readytorun |-> 8192,
     tcb |-> [t \in TcbAddrs |-> CHOOSE i \in TcbImages : i.pid = 5]]

NoFpu == [is_armv7m |-> TRUE, fp_feature |-> "FP_NONE", cpacr |-> 0]

\* Refresh: any image of the task registry, refreshed again and again
Init ==
    /\ FreshRtos
    /\ target_type = "cortex_m"
    /\ fpu = NoFpu
    /\ mem \in Images({l \in Layouts : l.regs_off = 44})

Next ==
    \/ ResolveSymbols({LinkAddr})
    \/ UpdateThreads

Spec == Init /\ [][Next]_vars

\* Detection and binding: any target type, any outcome of the symbol lookup
InitBind ==
    /\ FreshRtos
    /\ target_type \in TargetTypes
    /\ fpu = NoFpu
    /\ mem = OneImage

NextBind ==
    \/ GetSymbolListToLookup
    \/ ResolveSymbols(SymbolTables)
    \/ DetectRtos
    \/ Create

SpecBind == InitBind /\ [][NextBind]_vars

\* Registers: a bound backend with its symbols resolved; the marker is any
\* value a refresh can have left
InitRegs ==
    /\ symbols = LinkAddr
    /\ thread_details = <<>>
    /\ thread_count = 0
    /\ current_thread \in ThreadIds
    /\ rtos_specific_params = NULL
    /\ last = [call |-> "none", ret |-> "none", trace |-> <<>>]
    /\ target_type \in TargetTypes
    /\ fpu \in [is_armv7m : BOOLEAN, fp_feature : {"FP_NONE", "FPV4_SP", "FPV5_SP"},
                 cpacr : CpacrValues]
    /\ mem = OneImage

NextRegs ==
    \/ Create
    \/ WriteCpacr
    \/ SelectStackinfo
    \/ GetThreadRegList

SpecRegs == InitRegs /\ [][NextRegs]_vars

\* a core with the FPU the selector knows, enabled in CPACR
FpuEnabled == [is_armv7m |-> TRUE, fp_feature |-> "FPV4_SP", cpacr |-> 15728640]

\* the images the debugger both refreshes from and fetches registers from:
\* any bucket array and any layout, over the control blocks of OneImage
FetchImages ==
    {[npidhash |-> Len(b), pidhash |-> b, tcbinfo |-> l,
      readytorun |-> OneImage.readytorun, tcb |-> OneImage.tcb] :
        b \in BucketArrays, l \in Layouts}

\* A debugging session: symbols resolved, binding created, threads refreshed
\* and registers fetched in any order
InitFetch ==
    /\ FreshRtos
    /\ target_type = "cortex_m"
    /\ fpu = FpuEnabled
    /\ mem \in FetchImages

NextFetch ==
    \/ ResolveSymbols({LinkAddr})
    \/ Create
    \/ UpdateThreads
    \/ GetThreadRegList

SpecFetch == InitFetch /\ [][NextFetch]_vars

-----------------------------------------------------------------------------
(* What the claims speak of *)

Refreshed == last.call = "update_threads"
RefreshOk == Refreshed /\ last.ret = "ERROR_OK"
RefreshFailed == Refreshed /\ last.ret # "ERROR_OK"

\* the operations of the last call, by kind
OpsOf(kinds) == {i \in 1..Len(last.trace) : last.trace[i].op \in kinds}
AllOk(kinds) == \A i \in OpsOf(kinds) : last.trace[i].ok

\* the last call's final operation failed, and was of one of these kinds
FailedAt(kinds) ==
    /\ last.trace # <<>>
    /\ ~last.trace[Len(last.trace)].ok
    /\ last.trace[Len(last.trace)].op \in kinds

\* the non-zero buckets of the image, in bucket order
NonZeroBuckets == SelectSeq(mem.pidhash, LAMBDA t : t # 0)

\* the per-bucket pid, state and name reads: reads of the walk come after
\* the five reads and the allocation that precede it
WalkReads == {i \in OpsOf(ReadOps) : i > 6}

\* "pid:<pid>, <STATE_NAME>" for the pid and the state the image holds at t
InfoOf(t) ==
    "pid:" \o FormatDec(mem.tcb[t].pid) \o ", " \o task_state_str[mem.tcb[t].state + 1]

\* the info strings a pid can get: one per entry of the state table
InfoStrings(t) ==
    {"pid:" \o FormatDec(mem.tcb[t].pid) \o ", " \o task_state_str[k] :
        k \in 1..Len(task_state_str)}

\* C1: if a pid, state or name read of the bucket walk fails, the refresh
\* returns failure, the thread count is 0 and the thread list holds no record
C1_MidWalkFailureLeavesNoRecord ==
    (Refreshed /\ FailedAt(ReadOps) /\ Len(last.trace) > 6)
        => /\ last.ret # "ERROR_OK"
           /\ thread_count = 0
           /\ thread_details = <<>>

\* C2: after a refresh that returned failure, the thread count is 0 and no
\* record of the previous snapshot is kept: the list holds at most the records
\* this call appended
C2_FailedRefreshDiscardsPrevious ==
    RefreshFailed
        => /\ thread_count = 0
           /\ Len(thread_details) <=
                  Cardinality({i \in OpsOf({"realloc"}) : last.trace[i].ok})
           /\ (OpsOf({"realloc"}) = {} => thread_details = <<>>)

\* C2 witness: a refresh failed before the bucket walk while two threads were listed
C2_Witness ==
    /\ RefreshFailed
    /\ last.listed_before = 2
    /\ Len(last.trace) <= 6
    /\ thread_count = 0
    /\ thread_details = <<>>

\* C3 as stated: after a successful refresh the snapshot is the non-zero
\* buckets in order, each with an info string "pid:<pid>, <STATE_NAME>"
C3_EveryRecordHasInfoString ==
    RefreshOk
        => /\ thread_count = Len(NonZeroBuckets)
           /\ Len(thread_details) = Len(NonZeroBuckets)
           /\ \A i \in 1..Len(thread_details) :
                 /\ thread_details[i].threadid = NonZeroBuckets[i]
                 /\ thread_details[i].exists
                 /\ thread_details[i].extra_info_str # NULL
                 /\ thread_details[i].extra_info_str[1] \in InfoStrings(NonZeroBuckets[i])

\* C3 amended: after a successful refresh the snapshot is the non-zero buckets
\* in order (zero buckets skipped, duplicates kept), thread_id the bucket
\* value, exists true, the info string "pid:<pid>, <STATE_NAME>" when the state
\* code is in the state table and absent otherwise, and the thread count the
\* number of non-zero buckets
C3_SnapshotIsNonZeroBuckets ==
    RefreshOk
        => /\ thread_count = Len(NonZeroBuckets)
           /\ Len(thread_details) = Len(NonZeroBuckets)
           /\ \A i \in 1..Len(thread_details) :
                 LET t == NonZeroBuckets[i]
                 IN /\ thread_details[i].threadid = t
                    /\ thread_details[i].exists
                    /\ thread_details[i].extra_info_str =
                          IF mem.tcb[t].state <= 10 THEN Str(InfoOf(t)) ELSE NULL

\* C3 witness: a successful refresh kept both buckets of a table that names
\* the same control block twice, with its info string
C3_Witness ==
    /\ RefreshOk
    /\ mem.pidhash = <<8192, 8192>>
    /\ thread_count = 2
    /\ thread_details[1].threadid = 8192
    /\ thread_details[2].threadid = 8192
    /\ thread_details[2].extra_info_str = Str("pid:5, RUNNING")

\* C7: if the hash-table size read is 0 and all reads succeed, the refresh
\* succeeds with an empty snapshot and the marker read from g_readytorun
C7_EmptyRegistrySucceeds ==
    (Refreshed /\ last.trace # <<>> /\ mem.npidhash = 0 /\ AllOk(ReadOps))
        => /\ last.ret = "ERROR_OK"
           /\ thread_count = 0
           /\ thread_details = <<>>
           /\ current_thread = mem.readytorun

\* C8: after a successful refresh, if name_off is 0 every record is named
\* "None" and no name was read; otherwise every record's name is what the
\* image holds at control block + name_off
C8_NameFallback ==
    RefreshOk
        => IF mem.tcbinfo.name_off = 0
           THEN /\ \A i \in 1..Len(thread_details) :
                      thread_details[i].thread_name_str = Str("None")
                /\ WalkReads \cap OpsOf({"read_buffer"}) = {}
           ELSE \A i \in 1..Len(thread_details) :
                   /\ thread_details[i].thread_name_str =
                          Str(mem.tcb[thread_details[i].threadid].name)
                   /\ \E k \in WalkReads :
                          /\ last.trace[k].op = "read_buffer"
                          /\ last.trace[k].addr =
                                 thread_details[i].threadid + mem.tcbinfo.name_off

\* C9: a state code outside the state table costs the record its info string
\* and nothing else: a refresh fails only when a read or an allocation failed,
\* a successful one lists every non-zero bucket, the records whose state code
\* is in the table with the info string of the table entry at that index, the
\* others with none
C9_UnknownStateAbsorbed ==
    /\ (RefreshFailed /\ last.trace # <<>>) => FailedAt(ReadOps \cup AllocOps)
    /\ RefreshOk
          => /\ Len(thread_details) = Len(NonZeroBuckets)
             /\ \A i \in 1..Len(thread_details) :
                   LET code == mem.tcb[thread_details[i].threadid].state
                       pid == mem.tcb[thread_details[i].threadid].pid
                   IN IF code >= ARRAY_SIZE(task_state_str)
                      THEN thread_details[i].extra_info_str = NULL
                      ELSE thread_details[i].extra_info_str =
                              Str("pid:" \o FormatDec(pid) \o ", " \o task_state_str[code + 1])

\* C9 witness: a successful refresh listed a task whose state code is outside
\* the table, without an info string, next to one whose code is the last entry
C9_Witness ==
    /\ RefreshOk
    /\ thread_count = 2
    /\ \E i, j \in 1..2 :
          /\ mem.tcb[thread_details[i].threadid].state = 11
          /\ thread_details[i].extra_info_str = NULL
          /\ mem.tcb[thread_details[j].threadid].state = 10
          /\ thread_details[j].extra_info_str = Str("pid:7, STOPPED")

\* C4: detect returns true exactly when rtos->symbols exists and both anchors,
\* g_readytorun and g_pidhash, resolved to non-zero addresses; it returns a
\* bool, never an error; g_npidhash and g_tcbinfo do not matter
C4_DetectIffBothAnchors ==
    last.call = "detect_rtos"
        => /\ last.detected \in BOOLEAN
           /\ last.detected = TRUE <=> /\ last.symbols \in SymbolTables
                                        /\ last.symbols[0] # 0
                                        /\ last.symbols[1] # 0

\* C4 witness: detect answered true with both anchors resolved and neither
\* g_npidhash nor g_tcbinfo
C4_Witness ==
    /\ last.call = "detect_rtos"
    /\ last.detected = TRUE
    /\ last.symbols # NULL
    /\ last.symbols[2] = 0
    /\ last.symbols[3] = 0

KnownTargets == {"cortex_m", "hla_target", "esp32c3"}

\* C6: create_binding for a target type outside the static table returns
\* failure and leaves rtos->rtos_specific_params as it was before the call
C6_UnknownTargetNoBinding ==
    [][(Create /\ target_type \notin KnownTargets)
          => /\ last'.ret = "JIM_ERR"
             /\ rtos_specific_params' = rtos_specific_params]_vars

\* C6 witness: create_binding has failed on a target type outside the table
C6_Witness ==
    /\ last.call = "create"
    /\ last.ret = "JIM_ERR"
    /\ target_type = "riscv"
    /\ rtos_specific_params = NULL

\* the kinds of operation each register path issues
StackPathOps == {"read_u16", "read_u32", "stack_read"}
LivePathOps == {"get_gdb_reg_list"}

\* C5: a register fetch for the Current-Thread Marker issues no read of the
\* layout descriptor, of the saved-register pointer or of the stack, only the
\* live-register fetch; a fetch for any other thread never issues the
\* live-register fetch
C5_RegisterRouting ==
    last.call = "get_thread_reg_list"
        => IF last.thread_id = current_thread
           THEN /\ OpsOf(StackPathOps) = {}
                /\ OpsOf(LivePathOps) = {1}
           ELSE /\ OpsOf(LivePathOps) = {}
                /\ OpsOf(StackPathOps) # {}

\* C5 witness: the registers of the current thread came from the register cache
C5_Witness ==
    /\ last.call = "get_thread_reg_list"
    /\ last.thread_id = current_thread
    /\ last.ret = "ERROR_OK"
    /\ last.reg_list = <<[source |-> "reg_cache"]>>

\* the binding's selector is the Cortex-style one
CortexBound ==
    /\ rtos_specific_params # NULL
    /\ target_type \in {"cortex_m", "hla_target"}

\* a bit of the enable field, bits 20 to 23, is set
EnableBitSet(v) == \E b \in {1048576, 2097152, 4194304, 8388608} : (v \div b) % 2 = 1

Selected == last.call = "select_stackinfo" /\ CortexBound

\* the selector's read of CPACR was issued and succeeded
CpacrReadOk == last.trace # <<>> /\ last.trace[1].ok

\* the core has the FPU the selector knows: ARMv7-M with FPv4-SP
FpuPresent == fpu.is_armv7m /\ fpu.fp_feature = "FPV4_SP"

C10_DescriptorOfFpuState ==
    Selected
        => last.ret = IF FpuPresent /\ CpacrReadOk /\ EnableBitSet(last.cpacr)
                      THEN "nuttx_stacking_cortex_m_fpu"
                      ELSE "nuttx_stacking_cortex_m"

StackFetchOk ==
    /\ last.call = "get_thread_reg_list"
    /\ last.thread_id # current_thread
    /\ last.ret = "ERROR_OK"

\* the read of CPACR the selector issued inside the last register fetch, if any
FetchCpacrReads == {i \in OpsOf({"read_u32"}) : last.trace[i].addr = FPU_CPACR}

FetchStep ==
    /\ last'.call = "get_thread_reg_list"
    /\ symbols' = symbols
    /\ fpu' = fpu

\* C12: a register fetch, on either path and whether it succeeds or fails,
\* leaves the thread snapshot, the thread count and the Current-Thread Marker
\* as they were
C12_FetchLeavesSnapshotAlone ==
    [][FetchStep
          => UNCHANGED <<thread_details, thread_count, current_thread>>]_vars

\* C12 witness: a fetch for a thread other than the marker has failed while
\* two threads were listed, and they are still listed
C12_Witness ==
    /\ last.call = "get_thread_reg_list"
    /\ last.thread_id # current_thread
    /\ last.ret # "ERROR_OK"
    /\ thread_count = 2
    /\ Len(thread_details) = 2
    /\ current_thread = mem.readytorun

\* the reads a register fetch depends on: the live-register fetch, the read
\* of regs_off, the read of the saved-register pointer, the stack read; the
\* selector's own read of CPACR is not one of them
FetchReads ==
    {i \in OpsOf(LivePathOps \cup StackPathOps) : i \notin FetchCpacrReads}

\* C13: if the live-register fetch, the regs_off read, the saved-pointer read
\* or the stack read of a register fetch fails, the fetch returns failure and
\* hands no Register Set back
C13_FailedReadFailsFetch ==
    (last.call = "get_thread_reg_list" /\ \E i \in FetchReads : ~last.trace[i].ok)
        => /\ last.ret # "ERROR_OK"
           /\ last.reg_list = NULL

\* C13 witness: the saved-pointer read of a fetch for a thread other than the
\* marker failed after the read of CPACR and the read of regs_off had
\* succeeded; the fetch returned failure and no Register Set
C13_Witness ==
    /\ last.call = "get_thread_reg_list"
    /\ last.thread_id # current_thread
    /\ Len(last.trace) = 3
    /\ last.trace[1].addr = FPU_CPACR
    /\ last.trace[2].ok
    /\ ~last.trace[3].ok
    /\ last.trace[3].op = "read_u32"
    /\ last.ret = "ERROR_FAIL"
    /\ last.reg_list = NULL

\* the last call was the symbol-list query, returned or not
SymbolListAsked ==
    \/ last.call = "get_symbol_list_to_lookup"
    \/ Crashed /\ last.in = "get_symbol_list_to_lookup"

\* the names of a returned list, up to the entry that ends it
RECURSIVE NamesOf(_)
NamesOf(list) ==
    IF list = <<>> \/ Head(list).symbol_name = NULL THEN <<>>
    ELSE <<Head(list).symbol_name[1]>> \o NamesOf(Tail(list))

\* C14: every call of the symbol-list query returns, without a target read,
\* the same ordered list of exactly four names, g_readytorun, g_pidhash,
\* g_npidhash, g_tcbinfo, each tagged required
C14_SameFourRequiredNames ==
    SymbolListAsked
        => /\ ~Crashed
           /\ last.ret = "ERROR_OK"
           /\ OpsOf(ReadOps) = {}
           /\ last.symbol_list # NULL
           /\ NamesOf(last.symbol_list) =
                  <<"g_readytorun", "g_pidhash", "g_npidhash", "g_tcbinfo">>
           /\ \A i \in 1..4 : ~last.symbol_list[i].optional

\* C15: the value a refresh returns when a host allocation fails differs from
\* the value it returns when a remote read fails: of two refreshes in a row,
\* one failing at an allocation and the next at a read, the return values differ
C15_AllocationFailureDistinct ==
    [][(/\ RefreshFailed /\ FailedAt(AllocOps)
        /\ RefreshFailed' /\ FailedAt(ReadOps)')
          => last'.ret # last.ret]_vars

\* the last call was a refresh, returned or not
RefreshCalled ==
    \/ Refreshed
    \/ Crashed /\ last.in = "update_threads"

\* C20: for every 32-bit hash-table size N the buffer that is allocated and
\* filled by the bulk read holds all N entries, so that every entry the bucket
\* walk decodes lies inside it, also when N * 4 does not fit in 32 bits
C20_BufferHoldsEveryEntry ==
    (RefreshCalled /\ Len(last.trace) >= 6 /\ last.trace[6].ok)
        => /\ BufferWords(mem.npidhash) = mem.npidhash
           /\ OpsOf({"overread"}) = {}

\* a remote read, by kind and address
Read(kind, addr) == [op |-> kind, addr |-> addr]

\* the reads of the last call, in issue order
ReadsIssued ==
    LET reads == SelectSeq(last.trace, LAMBDA o : o.op \in ReadOps)
    IN [i \in 1..Len(reads) |-> Read(reads[i].op, reads[i].addr)]

\* the reads of the walk over the buckets b: pid, state and, when the layout
\* has a name offset, name of each non-zero bucket
RECURSIVE BucketReads(_)
BucketReads(b) ==
    IF b = <<>> THEN <<>>
    ELSE LET t == Head(b)
             l == mem.tcbinfo
         IN (IF t = 0 THEN <<>>
             ELSE <<Read("read_u16", t + l.pid_off), Read("read_u8", t + l.state_off)>>
                  \o (IF l.name_off = 0 THEN <<>>
                      ELSE <<Read("read_buffer", t + l.name_off)>>))
            \o BucketReads(Tail(b))

\* the reads of a whole refresh of the image: size, base, bucket array, layout
\* descriptor, marker, then the walk
RefreshReads ==
    << Read("read_u32", LinkAddr[NX_SYM_NPIDHASH]),
       Read("read_u32", LinkAddr[NX_SYM_PIDHASH]),
       Read("read_buffer", Board.pidhash),
       Read("read_buffer", LinkAddr[NX_SYM_TCB_INFO]),
       Read("read_u32", LinkAddr[NX_SYM_READYTORUN]) >> \o BucketReads(mem.pidhash)

\* no read of the last call was issued after one of these had failed
NothingAfterFailureOf(reads) ==
    \A i \in reads : ~last.trace[i].ok
        => /\ \A j \in OpsOf(ReadOps \cup {"stack_read"}) : j <= i
           /\ last.ret # "ERROR_OK"

\* C16: the reads of a refresh are issued in the order size, base, bucket
\* array, layout descriptor, marker, then pid, state, name of each non-zero
\* bucket in bucket order: what a call issued is the beginning of that
\* sequence, all of it when the call succeeds; after a read that fails no
\* other read is issued and the call returns failure.  In a fetch for a thread
\* other than the marker the regs_off read comes before the saved-pointer
\* read, and after one of them fails no read is issued and the fetch fails
C16_ReadOrderAndAbort ==
    /\ (Refreshed /\ last.trace # <<>>)
          => /\ Len(ReadsIssued) <= Len(RefreshReads)
             /\ ReadsIssued = SubSeq(RefreshReads, 1, Len(ReadsIssued))
             /\ RefreshOk => ReadsIssued = RefreshReads
             /\ NothingAfterFailureOf(OpsOf(ReadOps))
    /\ (last.call = "get_thread_reg_list" /\ last.thread_id # current_thread)
          => /\ \A i \in OpsOf({"read_u16"}), j \in OpsOf({"read_u32"}) \ FetchCpacrReads :
                    i < j
             /\ NothingAfterFailureOf(OpsOf({"read_u16", "read_u32"}) \ FetchCpacrReads)

\* C16 witness: the state read of the second bucket failed; pid and state of
\* the first, with its name, and pid of the second had been read, and no read
\* follows the failed one
C16_Witness ==
    /\ RefreshFailed
    /\ mem.pidhash = <<8192, 8448>>
    /\ mem.tcbinfo.name_off = 38
    /\ Len(ReadsIssued) = 10
    /\ ReadsIssued[10] = Read("read_u8", 8448 + 26)
    /\ FailedAt({"read_u8"})

\* the operations of the last fetch, the selector's read of CPACR left out
FetchOps ==
    LET ops == SelectSeq(last.trace, LAMBDA o : ~(o.op = "read_u32" /\ o.addr = FPU_CPACR))
    IN [i \in 1..Len(ops) |-> Read(ops[i].op, ops[i].addr)]

\* what the image holds at thread_id + regs_off: the saved-register pointer
\* of a control block, 0 elsewhere
SavedPointer(thread_id) == IF thread_id \in TcbAddrs THEN RegsAddr[thread_id] ELSE 0

\* the descriptor the bound selector returns at the last fetch
DescriptorAtFetch ==
    IF ~CortexBound THEN "nuttx_riscv_stacking"
    ELSE IF /\ FpuPresent
            /\ FetchCpacrReads # {}
            /\ \A i \in FetchCpacrReads : last.trace[i].ok
            /\ EnableBitSet(last.cpacr)
         THEN "nuttx_stacking_cortex_m_fpu"
         ELSE "nuttx_stacking_cortex_m"

\* C17: a fetch for a thread other than the marker reads regs_off at the
\* address of g_tcbinfo plus 8, then the 32-bit saved-register pointer at
\* thread_id + the regs_off the image holds now, then unpacks at exactly that
\* pointer with the descriptor the bound selector returns; a fetch that fails
\* has issued the beginning of that sequence
C17_FreshRegsOffThenPointerThenUnpack ==
    (last.call = "get_thread_reg_list" /\ last.thread_id # current_thread)
        => LET whole == << Read("read_u16", LinkAddr[NX_SYM_TCB_INFO] + 8),
                           Read("read_u32", last.thread_id + mem.tcbinfo.regs_off),
                           Read("stack_read", SavedPointer(last.thread_id)) >>
           IN /\ Len(FetchOps) \in 1..3
              /\ FetchOps = SubSeq(whole, 1, Len(FetchOps))
              /\ last.ret = "ERROR_OK"
                    => /\ FetchOps = whole
                       /\ last.reg_list =
                             << [source |-> "stack", stacking |-> DescriptorAtFetch,
                                 stack_ptr |-> SavedPointer(last.thread_id)] >>

\* C17 witness: after a refresh listed two threads of an image whose regs_off
\* is 48, the registers of the thread that is not the marker were unpacked at
\* the pointer read at its control block + 48
C17_Witness ==
    /\ StackFetchOk
    /\ thread_count = 2
    /\ mem.tcbinfo.regs_off = 48
    /\ last.thread_id = 8448
    /\ FetchOps = << Read("read_u16", 4152), Read("read_u32", 8496),
                     Read("stack_read", 8576) >>
    /\ last.reg_list[1].stack_ptr = 8576

\* the steps of UpdateThreads that returned: every other action either leaves
\* another call in `last` or changes the symbols or CPACR
RefreshStep ==
    /\ last'.call = "update_threads"
    /\ symbols' = symbols
    /\ fpu' = fpu

\* the marker read of the last refresh, the sixth operation, was issued and succeeded
MarkerReadOk == Len(last.trace) >= 6 /\ last.trace[6].ok

C19_CountWithinList ==
    /\ thread_count <= Len(thread_details)
    /\ RefreshOk => thread_count = Len(thread_details)

\* C19 witness: a refresh failed in the bucket walk of a table of which two
\* threads were listed before: the list holds the one record appended by this
\* call, the count is 0
C19_Witness ==
    /\ RefreshFailed
    /\ last.listed_before = 2
    /\ Len(thread_details) = 1
    /\ thread_count = 0

====
